---- MODULE Spec2Model ----
(***************************************************************************)
(* Task orchestration core of LotusCoder: the agent registry               *)
(* (AgentRegistry), the audit-record wrapper around an executor            *)
(* (BaseAgent.processTask), the batch runner (executeTasks) and the        *)
(* workflow orchestrator (orchestrateWorkflow), with the service layer     *)
(* (AgentsService) that calls them.                                        *)
(*                                                                         *)
(* Every await of the TypeScript source is a point where another call may  *)
(* run, so each action below is the code between two awaits.               *)
(*                                                                         *)
(* Spec is the program over a store that accepts every save; FaultSpec is  *)
(* the same program over a store that may reject any save, which exercises *)
(* the catch block of processTask after a rejected save.  In both the      *)
(* clock stands still and Math.random() has one outcome: everything runs   *)
(* within one millisecond.  TimeSpec follows a task or two identical       *)
(* concurrent tasks under a clock that advances and a Math.random() with   *)
(* two outcomes; it is where timestamps and request ids are studied.       *)
(* RegistrySpec adds registerAgent calls made after onModuleInit.  The     *)
(* WebSocket gateway (handleAgentTaskRequest) is the outer entry point of  *)
(* a single task and is part of Spec.                                      *)
(***************************************************************************)
EXTENDS Integers, Sequences, FiniteSets, TLC

\* Largest number of requests in one executeTasks batch.
MaxBatch == 2
\* Largest number of steps in one workflow.
MaxSteps == 3

\* Largest number of milliseconds the clock advances between two clock reads
\* of one synchronous stretch of code.
MaxSkew == 1
\* Number of milliseconds a slow save and execute(input) take.
MaxElapsed == 2

\* undefined / null of the source.
Null == "null"

\* A date or a number column that is not set.
Unset == 0 - 1

Max(a, b) == IF a >= b THEN a ELSE b

\* One executeTask invocation per batch position or workflow step.
CallIds == 1 .. Max(1, Max(MaxBatch, MaxSteps))

(***************************************************************************)
(* Executors (the agents injected into the registry) and their configs.    *)
(***************************************************************************)
ManagerAgentConfig ==
    [name |-> "ManagerAgent", type |-> "manager", enabled |-> TRUE,
     timeout |-> 60000, retryAttempts |-> 3, maxConcurrent |-> 5]

TestingAgentConfig ==
    [name |-> "TestingAgent", type |-> "testing", enabled |-> TRUE,
     timeout |-> 90000, retryAttempts |-> 2, maxConcurrent |-> 2]

\* A BaseAgent constructed with enabled: false.  No agent of the application
\* is, but registerAgent accepts any BaseAgent.
DisabledAgentConfig ==
    [name |-> "DisabledAgent", type |-> "disabled", enabled |-> FALSE,
     timeout |-> 60000, retryAttempts |-> 3, maxConcurrent |-> 5]

Agents == {"ManagerAgent", "TestingAgent"}

\* The executors a registerAgent call may pass.
Executors == Agents \cup {"DisabledAgent"}

getConfig(agent) ==
    IF agent = "ManagerAgent" THEN ManagerAgentConfig
    ELSE IF agent = "TestingAgent" THEN TestingAgentConfig
    ELSE DisabledAgentConfig

isEnabled(agent) == getConfig(agent).enabled

\* Agent types a request may name: the registered ones and one that is not.
RequestTypes == {"manager", "testing", "ghost"}

\* Task descriptions; "Z" is a dependency key no step ever produces.
Tasks == {"A", "B", "C"}

\* What an executor's execute(input) may do: return success, return
\* success=false with an error, or throw.
ExecuteOutcomes == {"success", "failure", "throw"}

WorkflowNames == {"non-critical", "critical-flow"}

(***************************************************************************)
(* Values                                                                  *)
(***************************************************************************)
\* AgentOutput; agentType is set only in the stub executeTasks builds.
NoOutput ==
    [success |-> FALSE, result |-> Null, error |-> Null,
     agentExecutionId |-> 0, agentType |-> Null]

\* AgentExecution entity; id 0 stands for "no entity yet".
NoExecution ==
    [id |-> 0, agentType |-> Null, agentName |-> Null, status |-> Null,
     input |-> Null, output |-> Null, error |-> Null,
     startedAt |-> Unset, duration |-> Unset, completedAt |-> Unset]

\* `req_${Date.now()}_${Math.random().toString(36).substr(2, 9)}`
generateRequestId(at, suffix) == [at |-> at, suffix |-> suffix]

\* input.metadata.requestId of a call that has not built its input.
NoRequestId == [at |-> Unset, suffix |-> Null]

\* lastRegister before any registerAgent call after onModuleInit.
NoRegistration == [type |-> Null, agent |-> Null]

\* after is history: the latest registerAgent call made before the lookup;
\* saves is history: how each repository save the call awaited has settled.
NoCall ==
    [pc |-> "idle", agentType |-> Null, task |-> Null, agent |-> Null,
     registered |-> FALSE, after |-> NoRegistration,
     requestId |-> NoRequestId, startTime |-> Unset,
     agentExecution |-> NoExecution,
     inCatch |-> FALSE, outcome |-> Null, result |-> NoOutput,
     value |-> NoOutput, error |-> Null, invoked |-> 0, saves |-> <<>>]

JSONstringify(x) == "json(" \o x \o ")"

NotAvailable(agentType) == "Agent type '" \o agentType \o "' not available"

VARIABLES
    faulty,        \* the store may reject a save (environment)
    timed,         \* the clock advances while the program runs (environment)
    entropy,       \* the suffixes Math.random() may yield (environment)
    lastRegister,  \* history: the latest registerAgent call after onModuleInit
    now,           \* Date.now()
    emitted,       \* the events the gateway emitted to the room, in order
    agents,        \* AgentRegistry.agents: Map<type, agent>
    initialized,   \* onModuleInit has run
    calls,         \* the executeTask invocations, by call id
    store,         \* agentExecutionRepo: persisted AgentExecution rows by id
    writes,        \* history: per row id, the <<call, status>> of every save
    nextId,        \* the next fresh uuid
    single,        \* AgentsService.executeAgentTask invocation
    batch,         \* AgentRegistry.executeTasks invocation
    response,      \* what AgentsService.executeMultipleTasks returned
    wf,            \* AgentRegistry.orchestrateWorkflow invocation
    wfLog,         \* history: per step index, the decision taken and the keys seen
    report,        \* what orchestrateWorkflow returned
    client         \* the browser: its agent store and its socket

\* The environment: fixed for a whole behaviour.
env == <<faulty, timed, entropy>>

vars ==
    <<env, client, lastRegister, now, emitted, agents, initialized, calls, store, writes,
      nextId, single, batch, response, wf, wfLog, report>>

EmptyMap == [k \in {} |-> Null]

(***************************************************************************)
(* AgentRegistry: registration and lookup                                  *)
(***************************************************************************)
\* Mutant: a disabled agent is registered like any other.
registerAgentIgnoresEnabled(map, type, agent) ==
    [t \in (DOMAIN map) \cup {type} |-> IF t = type THEN agent ELSE map[t]]

\* Mutant: a type that is already registered keeps its first agent.
registerAgentKeepsFirst(map, type, agent) ==
    IF ~isEnabled(agent) \/ type \in DOMAIN map
    THEN map
    ELSE [t \in (DOMAIN map) \cup {type} |-> IF t = type THEN agent ELSE map[t]]

\* Mutant: registering a disabled agent removes the type's entry.
registerAgentDisabledUnregisters(map, type, agent) ==
    IF ~isEnabled(agent)
    THEN [t \in (DOMAIN map) \ {type} |-> map[t]]
    ELSE [t \in (DOMAIN map) \cup {type} |-> IF t = type THEN agent ELSE map[t]]

registerAgent(map, type, agent) ==
    IF ~isEnabled(agent)
    THEN map
    ELSE [t \in (DOMAIN map) \cup {type} |-> IF t = type THEN agent ELSE map[t]]

\* getAgentStatus(): one entry per registered type.
getAgentStatus ==
    [t \in DOMAIN agents |->
        [name |-> getConfig(agents[t]).name,
         enabled |-> isEnabled(agents[t]),
         healthy |-> TRUE]]

\* Mutant: an unknown type falls back to the manager agent.
getAgentWithFallback(type) ==
    IF type \in DOMAIN agents THEN agents[type] ELSE "ManagerAgent"

getAgent(type) ==
    IF type \in DOMAIN agents THEN agents[type] ELSE Null

OnModuleInit ==
    /\ ~initialized
    /\ agents' = registerAgent(registerAgent(agents, "manager", "ManagerAgent"),
                               "testing", "TestingAgent")
    /\ initialized' = TRUE
    /\ UNCHANGED <<env, client, lastRegister, now, emitted, calls, store, writes,
                   nextId, single, batch, response, wf, wfLog, report>>

\* A registerAgent(type, agent) call made by the application after
\* onModuleInit, at any moment, also while a task is running.
Register(type, agent) ==
    /\ initialized
    /\ agents' = registerAgent(agents, type, agent)
    /\ lastRegister' = [type |-> type, agent |-> agent]
    /\ UNCHANGED <<env, client, now, emitted, initialized, calls, store, writes,
                   nextId, single, batch, response, wf, wfLog, report>>

(***************************************************************************)
(* BaseAgent.processTask and AgentRegistry.executeTask                     *)
(***************************************************************************)
\* Mutant: every entity gets the same id instead of a fresh uuid.
NewExecutionSameId(id, agent, task, startedAt) ==
    [id |-> 1, agentType |-> getConfig(agent).type,
     agentName |-> getConfig(agent).name, status |-> "running",
     input |-> JSONstringify(task), output |-> Null, error |-> Null,
     startedAt |-> startedAt, duration |-> Unset, completedAt |-> Unset]

\* agentExecutionRepo.create({...}) of processTask.
NewExecution(id, agent, task, startedAt) ==
    [id |-> id, agentType |-> getConfig(agent).type,
     agentName |-> getConfig(agent).name, status |-> "running",
     input |-> JSONstringify(task), output |-> Null, error |-> Null,
     startedAt |-> startedAt, duration |-> Unset, completedAt |-> Unset]

\* What execute(input) returns when it returns.
ExecuteResult(outcome) ==
    IF outcome = "success"
    THEN [success |-> TRUE, result |-> "artifact", error |-> Null]
    ELSE [success |-> FALSE, result |-> Null, error |-> "execution error"]

ExceptionMessage == "executor exception"

\* Mutant: the try block marks every returned result as completed.
UpdatedExecutionAlwaysCompleted(exec, result, duration, completedAt) ==
    [exec EXCEPT
        !.status = "completed",
        !.output = IF result.success THEN JSONstringify(result.result)
                                     ELSE result.error,
        !.error = result.error,
        !.duration = duration,
        !.completedAt = completedAt]

\* Mutant: the try block never sets completedAt.
UpdatedExecutionWithoutCompletedAt(exec, result, duration, completedAt) ==
    [exec EXCEPT
        !.status = IF result.success THEN "completed" ELSE "failed",
        !.output = IF result.success THEN JSONstringify(result.result)
                                     ELSE result.error,
        !.error = result.error,
        !.duration = duration]

\* The entity after "Update execution record" of the try block.
UpdatedExecution(exec, result, duration, completedAt) ==
    [exec EXCEPT
        !.status = IF result.success THEN "completed" ELSE "failed",
        !.output = IF result.success THEN JSONstringify(result.result)
                                     ELSE result.error,
        !.error = result.error,
        !.duration = duration,
        !.completedAt = completedAt]

\* Mutant: the catch block stores the message but forgets the status.
FailedExecutionKeepsStatus(exec, message, duration, completedAt) ==
    [exec EXCEPT !.error = message, !.duration = duration,
                 !.completedAt = completedAt]

\* The entity after "Update execution record with error" of the catch block.
FailedExecution(exec, message, duration, completedAt) ==
    [exec EXCEPT !.status = "failed", !.error = message, !.duration = duration,
                 !.completedAt = completedAt]

\* return {...result, agentExecutionId, duration} of the try block.
ProcessTaskReturn(exec, result) ==
    [success |-> result.success, result |-> result.result,
     error |-> result.error, agentExecutionId |-> exec.id, agentType |-> Null]

\* return {success: false, error, duration, agentExecutionId} of the catch block.
ProcessTaskCatch(exec, message) ==
    [success |-> FALSE, result |-> Null, error |-> message,
     agentExecutionId |-> exec.id, agentType |-> Null]

\* The milliseconds the clock may advance between two reads of one
\* synchronous stretch.
Skews == IF timed THEN 0 .. MaxSkew ELSE {0}

\* The milliseconds the awaited save and execute(input) take together: they
\* resolve within the millisecond, or take long.
Elapsed == IF timed THEN {0, MaxElapsed} ELSE {0}

\* executeTask up to its first await: lookup, then processTask up to the
\* first save.  id is the uuid processTask draws if it gets that far, at the
\* clock when the call is made, suffix what Math.random() yields, and skew
\* the time between startTime = Date.now() and startedAt: new Date().
StartCall(agentType, task, id, at, suffix, skew) ==
    LET agent == getAgent(agentType) IN
    IF agent = Null
    THEN [NoCall EXCEPT !.pc = "raised", !.agentType = agentType, !.task = task,
                        !.registered = agentType \in DOMAIN agents,
                        !.after = lastRegister,
                        !.error = NotAvailable(agentType)]
    ELSE [NoCall EXCEPT !.pc = "saving", !.agentType = agentType, !.task = task,
                        !.registered = agentType \in DOMAIN agents,
                        !.after = lastRegister,
                        !.agent = agent,
                        !.requestId = generateRequestId(at, suffix),
                        !.startTime = at,
                        !.agentExecution =
                            NewExecution(id, agent, task, at + skew)]

\* Date.now() after the synchronous part of a call made at `at`.
ClockAfterStart(agentType, at, skew) ==
    IF getAgent(agentType) = Null THEN at ELSE at + skew

\* agentExecutionRepo.save(entity) by call c: insert or update by id.
Save(c, exec) ==
    /\ store' = [i \in (DOMAIN store) \cup {exec.id} |->
                    IF i = exec.id THEN exec ELSE store[i]]
    /\ writes' = [i \in (DOMAIN writes) \cup {exec.id} |->
                    IF i = exec.id
                    THEN (IF i \in DOMAIN writes THEN writes[i] ELSE <<>>)
                            \o <<[by |-> c, status |-> exec.status]>>
                    ELSE writes[i]]

\* How a save may end: the store rejects one only when it is faulty.
SaveOutcomes == IF faulty THEN {"ok", "error"} ELSE {"ok"}

SaveErrorMessage == "save failed"

\* The catch block of processTask is entered with the entity built: it marks
\* the entity failed and saves it again.  at is Date.now() of the catch
\* block and completedAt its new Date().
EnterCatch(call, message, at, completedAt) ==
    [call EXCEPT
        !.pc = "updating", !.inCatch = TRUE,
        !.agentExecution = FailedExecution(call.agentExecution, message,
                                           at - call.startTime, completedAt),
        !.result = ProcessTaskCatch(call.agentExecution, message)]

\* Mutant: execute(input) is called without awaiting the first save.
SaveRunningNotAwaited(c) ==
    /\ calls[c].pc = "saving"
    /\ calls' = [calls EXCEPT ![c].pc = "executing",
                              ![c].invoked = calls[c].invoked + 1]
    /\ UNCHANGED <<env, client, lastRegister, now, emitted, agents, initialized,
                   store, writes, nextId, single, batch, response, wf, wfLog,
                   report>>

\* The first save settles: processTask goes on to call execute(input), or
\* enters its catch block when the save was rejected.
\* Mutant: the executor is entered only while fewer than maxConcurrent
\* executions of the same executor are under way.
SaveRunningUnderLimit(c) ==
    /\ calls[c].pc = "saving"
    /\ Cardinality({d \in CallIds : /\ calls[d].pc = "executing"
                                    /\ calls[d].agent = calls[c].agent})
          < getConfig(calls[c].agent).maxConcurrent
    /\ \E saved \in SaveOutcomes :
          IF saved = "ok"
          THEN /\ Save(c, calls[c].agentExecution)
               /\ calls' = [calls EXCEPT ![c].pc = "executing",
                                         ![c].invoked = calls[c].invoked + 1,
                                         ![c].saves = Append(@, saved)]
          ELSE /\ UNCHANGED <<store, writes>>
               /\ calls' = [calls EXCEPT
                               ![c] = [EnterCatch(calls[c], SaveErrorMessage,
                                                  now, now)
                                          EXCEPT !.saves = Append(@, saved)]]
    /\ UNCHANGED <<env, client, lastRegister, now, emitted, agents, initialized,
                   nextId, single, batch, response, wf, wfLog, report>>

\* Mutant: a rejected first save is ignored and the executor is entered.
SaveRunningIgnoresRejection(c) ==
    /\ calls[c].pc = "saving"
    /\ \E saved \in SaveOutcomes :
          /\ IF saved = "ok"
             THEN Save(c, calls[c].agentExecution)
             ELSE UNCHANGED <<store, writes>>
          /\ calls' = [calls EXCEPT ![c].pc = "executing",
                                    ![c].invoked = calls[c].invoked + 1,
                                    ![c].saves = Append(@, saved)]
    /\ UNCHANGED <<env, client, lastRegister, now, emitted, agents, initialized,
                   nextId, single, batch, response, wf, wfLog, report>>

SaveRunning(c) ==
    /\ calls[c].pc = "saving"
    /\ \E saved \in SaveOutcomes :
          IF saved = "ok"
          THEN /\ Save(c, calls[c].agentExecution)
               /\ calls' = [calls EXCEPT ![c].pc = "executing",
                                         ![c].invoked = calls[c].invoked + 1,
                                         ![c].saves = Append(@, saved)]
          ELSE /\ UNCHANGED <<store, writes>>
               /\ calls' = [calls EXCEPT
                               ![c] = [EnterCatch(calls[c], SaveErrorMessage,
                                                  now, now)
                                          EXCEPT !.saves = Append(@, saved)]]
    /\ UNCHANGED <<env, client, lastRegister, now, emitted, agents, initialized,
                   nextId, single, batch, response, wf, wfLog, report>>

\* execute(input) settles; processTask fills the entity in and starts the
\* second save (try block) or the save of the catch block.
ExecuteSettles(c) ==
    /\ calls[c].pc = "executing"
    /\ \E outcome \in ExecuteOutcomes, elapsed \in Elapsed, skew \in Skews :
          LET call == [calls[c] EXCEPT !.outcome = outcome]
              exec == call.agentExecution
              result == ExecuteResult(outcome)
              at == now + elapsed IN
          /\ calls' = [calls EXCEPT
                 ![c] = IF outcome = "throw"
                        THEN EnterCatch(call, ExceptionMessage, at, at + skew)
                        ELSE [call EXCEPT
                                 !.pc = "updating",
                                 !.agentExecution =
                                     UpdatedExecution(exec, result,
                                                      at - call.startTime,
                                                      at + skew),
                                 !.result = ProcessTaskReturn(exec, result)]]
          /\ now' = at + skew
    /\ UNCHANGED <<env, client, lastRegister, emitted, agents, initialized, store,
                   writes, nextId, single, batch, response, wf, wfLog,
                   report>>

\* Mutant: executeTask hands an unsuccessful result back instead of throwing.
ExecuteTaskSettleReturnsFailure(call) ==
    [call EXCEPT !.pc = "returned", !.value = call.result]

\* Mutant: an unsuccessful result is retried until retryAttempts is used up.
ExecuteTaskSettleRetries(call) ==
    IF ~call.result.success
    THEN IF call.invoked < getConfig(call.agent).retryAttempts
         THEN [call EXCEPT !.pc = "executing", !.inCatch = FALSE,
                           !.invoked = call.invoked + 1]
         ELSE [call EXCEPT !.pc = "raised", !.error = call.result.error]
    ELSE [call EXCEPT !.pc = "returned", !.value = call.result]

\* executeTask after processTask resolved: throw on an unsuccessful result.
ExecuteTaskSettle(call) ==
    IF ~call.result.success
    THEN [call EXCEPT !.pc = "raised", !.error = call.result.error]
    ELSE [call EXCEPT !.pc = "returned", !.value = call.result]

\* executeTask when processTask itself rejected: log and rethrow.
ExecuteTaskRethrow(call, message) ==
    [call EXCEPT !.pc = "raised", !.error = message]

\* The save after execute settles.  Saved: processTask returns and
\* executeTask settles.  Rejected in the try block: the catch block marks the
\* entity failed and saves again.  Rejected in the catch block: processTask
\* rejects and executeTask rethrows.
SaveTerminal(c) ==
    /\ calls[c].pc = "updating"
    /\ \E saved \in SaveOutcomes :
          IF saved = "ok"
          THEN /\ Save(c, calls[c].agentExecution)
               /\ calls' = [calls EXCEPT
                               ![c] = [ExecuteTaskSettle(calls[c])
                                          EXCEPT !.saves = Append(@, saved)]]
          ELSE /\ UNCHANGED <<store, writes>>
               /\ calls' = [calls EXCEPT
                               ![c] = [(IF calls[c].inCatch
                                        THEN ExecuteTaskRethrow(calls[c],
                                                                SaveErrorMessage)
                                        ELSE EnterCatch(calls[c], SaveErrorMessage,
                                                        now, now))
                                          EXCEPT !.saves = Append(@, saved)]]
    /\ UNCHANGED <<env, client, lastRegister, now, emitted, agents, initialized,
                   nextId, single, batch, response, wf, wfLog, report>>

Settled(c) == calls[c].pc \in {"returned", "raised"}

\* A behaviour follows one request from its arrival: a task, a batch or a
\* workflow; the concurrency is that of the calls of a batch.
NoRequest == single.pc = "idle" /\ batch.pc = "idle" /\ wf.pc = "idle"

(***************************************************************************)
(* AgentsService.executeAgentTask: one task, the failure caught            *)
(***************************************************************************)
\* via: the HTTP controller or the WebSocket gateway made the call;
\* answered: the gateway's callback for the settled call has run.
NoSingle ==
    [pc |-> "idle", via |-> Null,
     request |-> [agentType |-> Null, task |-> Null, taskId |-> Null],
     success |-> FALSE, result |-> NoOutput, error |-> Null, answered |-> FALSE]

ExecuteAgentTask ==
    /\ initialized
    /\ NoRequest
    /\ \E agentType \in RequestTypes, task \in Tasks,
          suffix \in entropy, skew \in Skews :
          /\ calls' = [calls EXCEPT
                          ![1] = StartCall(agentType, task, nextId, now, suffix,
                                           skew)]
          /\ nextId' = IF getAgent(agentType) = Null THEN nextId ELSE nextId + 1
          /\ now' = ClockAfterStart(agentType, now, skew)
          /\ single' = [single EXCEPT
                           !.pc = "awaiting", !.via = "controller",
                           !.request = [agentType |-> agentType, task |-> task,
                                        taskId |-> Null]]
    /\ UNCHANGED <<env, client, lastRegister, emitted, agents, initialized, store,
                   writes, batch, response, wf, wfLog, report>>

ExecuteAgentTaskSettle ==
    /\ single.pc = "awaiting"
    /\ Settled(1)
    /\ single' = IF calls[1].pc = "returned"
                 THEN [single EXCEPT !.pc = "done", !.success = TRUE,
                                     !.result = calls[1].value]
                 ELSE [single EXCEPT !.pc = "done", !.success = FALSE,
                                     !.error = calls[1].error]
    /\ UNCHANGED <<env, client, lastRegister, now, emitted, agents, initialized,
                   calls, store, writes, nextId, batch, response, wf, wfLog,
                   report>>

(***************************************************************************)
(* WebSocketGateway.handleAgentTaskRequest over WebSocketService            *)
(***************************************************************************)
\* What AgentsService.executeAgentTask resolves with: its try block and its
\* catch block both return an object.
ServiceResponse(s) ==
    [success |-> s.success, result |-> s.result, error |-> s.error]

NoResponse == [success |-> FALSE, result |-> NoOutput, error |-> Null]

\* The promise of WebSocketService.executeAgentTask: it returns what the
\* awaited AgentsService call resolved with and rethrows only what that call
\* rejected with, and that call never rejects.
WsExecuteAgentTask(s) ==
    [state |-> "fulfilled", value |-> ServiceResponse(s), error |-> Null]

\* this.server.to(room).emit('task_started', {agentType, task, ...})
TaskStarted(request) ==
    [event |-> "task_started", agentType |-> request.agentType,
     task |-> request.task, taskId |-> request.taskId,
     result |-> NoResponse, error |-> Null]

\* Mutant: both callbacks run, whatever the promise did.
EmitSettledBoth(log, request, promise) ==
    log \o <<[event |-> "task_completed", agentType |-> request.agentType,
              task |-> request.task, taskId |-> Null,
              result |-> promise.value, error |-> Null],
             [event |-> "task_failed", agentType |-> request.agentType,
              task |-> request.task, taskId |-> Null, result |-> NoResponse,
              error |-> promise.error]>>

\* .then(result => emit('task_completed', {agentType, task, result, timestamp}))
\* .catch(error => emit('task_failed', {agentType, task, error, timestamp}))
\* Neither payload has a taskId property.
EmitSettled(log, request, promise) ==
    IF promise.state = "fulfilled"
    THEN Append(log, [event |-> "task_completed",
                      agentType |-> request.agentType, task |-> request.task,
                      taskId |-> Null,
                      result |-> promise.value, error |-> Null])
    ELSE Append(log, [event |-> "task_failed",
                      agentType |-> request.agentType, task |-> request.task,
                      taskId |-> Null,
                      result |-> NoResponse, error |-> promise.error])

\* The handler of 'agent_task_request': emit task_started, then call
\* WebSocketService.executeAgentTask, which runs up to the first await of
\* processTask.
HandleAgentTaskRequestFrom(payloads) ==
    /\ initialized
    /\ NoRequest
    /\ \E request \in payloads, suffix \in entropy, skew \in Skews :
          /\ emitted' = Append(emitted, TaskStarted(request))
          /\ calls' = [calls EXCEPT
                          ![1] = StartCall(request.agentType, request.task,
                                           nextId, now, suffix, skew)]
          /\ nextId' = IF getAgent(request.agentType) = Null
                       THEN nextId ELSE nextId + 1
          /\ now' = ClockAfterStart(request.agentType, now, skew)
          /\ single' = [single EXCEPT
                           !.pc = "awaiting", !.via = "gateway",
                           !.request = request]
    /\ UNCHANGED <<env, lastRegister, agents, initialized, store, writes,
                   batch, response, wf, wfLog, report>>

\* An 'agent_task_request' whose payload has no taskId.
HandleAgentTaskRequest ==
    /\ HandleAgentTaskRequestFrom([agentType : RequestTypes, task : Tasks,
                                   taskId : {Null}])
    /\ UNCHANGED client

\* The promise of WebSocketService.executeAgentTask settled: the gateway's
\* .then or .catch callback emits the terminal event.
TaskRequestSettled ==
    /\ single.pc = "done"
    /\ single.via = "gateway"
    /\ ~single.answered
    /\ emitted' = EmitSettled(emitted, single.request, WsExecuteAgentTask(single))
    /\ single' = [single EXCEPT !.answered = TRUE]
    /\ UNCHANGED <<env, client, lastRegister, now, agents, initialized, calls, store,
                   writes, nextId, batch, response, wf, wfLog, report>>

(***************************************************************************)
(* The frontend agent store (useAgentStore) and its socket                  *)
(***************************************************************************)
\* isConnected: the socket store's flag; activeTasks: the agent store's
\* list; outbox: the 'agent_task_request' messages the socket has sent and
\* the gateway has not handled yet; received: how many of the events emitted
\* to the room the socket has handed to the store's listeners.
NoClient ==
    [isConnected |-> FALSE, activeTasks |-> <<>>, outbox |-> <<>>,
     received |-> 0]

\* `task_${Date.now()}_${Math.random().toString(36).substr(2, 9)}`
NewTaskId(at, suffix) == "task_" \o ToString(at) \o "_" \o suffix

\* updateTaskProgress(id, progress)
updateTaskProgress(tasks, id, progress) ==
    [k \in DOMAIN tasks |->
        IF tasks[k].id = id
        THEN [tasks[k] EXCEPT !.status = "running", !.progress = progress]
        ELSE tasks[k]]

\* completeTask(id, result)
completeTask(tasks, id, result) ==
    [k \in DOMAIN tasks |->
        IF tasks[k].id = id
        THEN [tasks[k] EXCEPT !.status = "completed", !.progress = 100,
                              !.result = result]
        ELSE tasks[k]]

\* failTask(id, error)
failTask(tasks, id, error) ==
    [k \in DOMAIN tasks |->
        IF tasks[k].id = id
        THEN [tasks[k] EXCEPT !.status = "failed", !.error = error]
        ELSE tasks[k]]

\* useAgentStore.executeTask: the task is appended as queued, set to running
\* by updateTaskProgress(taskId, 10), and the request is emitted; the socket
\* store's emit drops the message when the socket is not connected.
ClientExecuteTask ==
    /\ client.activeTasks = <<>>
    /\ \E agentType \in RequestTypes, task \in Tasks, suffix \in entropy :
          LET taskId == NewTaskId(now, suffix)
              newTask == [id |-> taskId, agentType |-> agentType, task |-> task,
                          status |-> "queued", progress |-> Unset,
                          result |-> NoResponse, error |-> Null]
              queued == Append(client.activeTasks, newTask)
              payload == [agentType |-> agentType, task |-> task,
                          taskId |-> taskId] IN
          client' = [client EXCEPT
                        !.activeTasks = updateTaskProgress(queued, taskId, 10),
                        !.outbox = IF client.isConnected
                                   THEN Append(client.outbox, payload)
                                   ELSE client.outbox]
    /\ UNCHANGED <<env, lastRegister, now, emitted, agents, initialized, calls,
                   store, writes, nextId, single, batch, response, wf, wfLog,
                   report>>

\* The gateway handles the client's 'agent_task_request'.
ClientTaskRequest ==
    /\ client.outbox # <<>>
    /\ HandleAgentTaskRequestFrom({Head(client.outbox)})
    /\ client' = [client EXCEPT !.outbox = Tail(client.outbox)]

\* The listeners of the agent store: task_started is logged; task_completed
\* and task_failed act only if (data.taskId).
OnEvent(tasks, data) ==
    IF data.event = "task_completed" /\ data.taskId # Null
    THEN completeTask(tasks, data.taskId, data.result)
    ELSE IF data.event = "task_failed" /\ data.taskId # Null
    THEN failTask(tasks, data.taskId, data.error)
    ELSE tasks

\* The socket hands the next event of the room to the store's listeners.
ClientReceives ==
    /\ client.isConnected
    /\ client.received < Len(emitted)
    /\ client' = [client EXCEPT
                     !.received = client.received + 1,
                     !.activeTasks = OnEvent(client.activeTasks,
                                             emitted[client.received + 1])]
    /\ UNCHANGED <<env, lastRegister, now, emitted, agents, initialized, calls,
                   store, writes, nextId, single, batch, response, wf, wfLog,
                   report>>

\* order is history: the positions in the order their promises settled.
NoBatch == [pc |-> "idle", requests |-> <<>>, values |-> <<>>, settled |-> {},
            order |-> <<>>, results |-> <<>>]

(***************************************************************************)
(* AgentRegistry.executeTasks under AgentsService.executeMultipleTasks     *)
(***************************************************************************)
\* Task descriptions used in batch requests.
BatchTasks == {"A"}

Requests == [agentType : RequestTypes, task : BatchTasks]

BatchInputs == UNION {[1 .. n -> Requests] : n \in 0 .. MaxBatch}

\* The uuid the call at position k draws: ids are drawn in input order, by
\* the calls that get past the lookup.
IdFor(requests, k) ==
    nextId + Cardinality({j \in 1 .. (k - 1) :
                             getAgent(requests[j].agentType) # Null})

\* Two requests with identical (agentType, task).
TwinInputs == {<<r, r>> : r \in Requests}

\* Date.now() when the call at position k is made: the calls are made one
\* after the other within one synchronous map.
RECURSIVE ClockFor(_, _, _)
ClockFor(requests, skews, k) ==
    IF k = 1 THEN now
    ELSE ClockAfterStart(requests[k - 1].agentType,
                         ClockFor(requests, skews, k - 1), skews[k - 1])

\* requests.map(request => this.executeTask(...).catch(...)); Promise.all(...)
\* for a request list drawn from inputs.
ExecuteTasksFrom(inputs) ==
    /\ initialized
    /\ NoRequest
    /\ \E requests \in inputs :
       \E suffixes \in [1 .. Len(requests) -> entropy],
          skews \in [1 .. Len(requests) -> Skews] :
          /\ calls' = [c \in CallIds |->
                          IF c <= Len(requests)
                          THEN StartCall(requests[c].agentType, requests[c].task,
                                         IdFor(requests, c),
                                         ClockFor(requests, skews, c),
                                         suffixes[c], skews[c])
                          ELSE calls[c]]
          /\ nextId' = IdFor(requests, Len(requests) + 1)
          /\ now' = ClockFor(requests, skews, Len(requests) + 1)
          /\ batch' = [pc |-> "waiting", requests |-> requests,
                       values |-> [i \in 1 .. Len(requests) |-> NoOutput],
                       settled |-> {}, order |-> <<>>, results |-> <<>>]
    /\ UNCHANGED <<env, client, lastRegister, emitted, agents, initialized, store,
                   writes, single, response, wf, wfLog, report>>

ExecuteTasks == ExecuteTasksFrom(BatchInputs)

\* For each executor whose limit fits the calls of the model, a batch of
\* maxConcurrent + 1 requests for that executor's type.
OverloadInputs ==
    LET registered == [manager |-> "ManagerAgent", testing |-> "TestingAgent"]
    IN  {[i \in 1 .. (getConfig(registered[type]).maxConcurrent + 1) |->
             [agentType |-> type, task |-> "A"]] :
           type \in {t \in DOMAIN registered :
                       getConfig(registered[t]).maxConcurrent + 1
                           <= Cardinality(CallIds)}}

\* A batch of maxConcurrent + 1 requests for one executor type.
ExecuteOverload == ExecuteTasksFrom(OverloadInputs)

\* A batch of two identical requests.
ExecuteTwins == ExecuteTasksFrom(TwinInputs)

\* Mutant: the promise of a request without the .catch handler.
BatchPromiseNoCatch(request, call) ==
    IF call.pc = "raised"
    THEN [state |-> "rejected", value |-> NoOutput]
    ELSE [state |-> "fulfilled", value |-> call.value]

\* The promise of one request: executeTask(...) with its .catch handler.
BatchPromise(request, call) ==
    IF call.pc = "raised"
    THEN [state |-> "fulfilled",
          value |-> [NoOutput EXCEPT !.error = call.error,
                                     !.agentType = request.agentType]]
    ELSE [state |-> "fulfilled", value |-> call.value]

\* Mutant: the values are collected in completion order.
PromiseAllFulfilInCompletionOrder(values, settled, index, value) ==
    [values EXCEPT ![Cardinality(settled) + 1] = value]

\* Promise.all keeps each fulfilment value at the index of its promise.
PromiseAllFulfil(values, settled, index, value) ==
    [values EXCEPT ![index] = value]

\* One promise of the batch settles.
BatchSettle(i) ==
    /\ batch.pc = "waiting"
    /\ i \in (1 .. Len(batch.requests)) \ batch.settled
    /\ Settled(i)
    /\ LET p == BatchPromise(batch.requests[i], calls[i]) IN
       batch' = IF p.state = "fulfilled"
                THEN [batch EXCEPT
                         !.values = PromiseAllFulfil(batch.values, batch.settled,
                                                     i, p.value),
                         !.settled = batch.settled \cup {i},
                         !.order = Append(batch.order, i)]
                ELSE [batch EXCEPT !.pc = "raised"]
    /\ UNCHANGED <<env, client, lastRegister, now, emitted, agents, initialized,
                   calls, store, writes, nextId, single, response, wf, wfLog,
                   report>>

\* Mutant: the batch returns as soon as one of its promises has settled.
BatchReturnAtFirstSettled ==
    /\ batch.pc = "waiting"
    /\ batch.settled # {}
    /\ batch' = [batch EXCEPT !.pc = "done", !.results = batch.values]
    /\ response' = [i \in 1 .. Len(batch.requests) |->
                       [request |-> batch.requests[i],
                        result |-> batch.values[i]]]
    /\ UNCHANGED <<env, client, lastRegister, now, emitted, agents, initialized,
                   calls, store, writes, nextId, single, wf, wfLog, report>>

\* Promise.all resolves; executeTasks returns results and
\* executeMultipleTasks pairs request i with results[i].
BatchReturn ==
    /\ batch.pc = "waiting"
    /\ batch.settled = 1 .. Len(batch.requests)
    /\ batch' = [batch EXCEPT !.pc = "done", !.results = batch.values]
    /\ response' = [i \in 1 .. Len(batch.requests) |->
                       [request |-> batch.requests[i],
                        result |-> batch.values[i]]]
    /\ UNCHANGED <<env, client, lastRegister, now, emitted, agents, initialized,
                   calls, store, writes, nextId, single, wf, wfLog, report>>

NoWorkflow == [pc |-> "idle", name |-> Null, steps |-> <<>>, i |-> 0,
               stepResults |-> EmptyMap, executedSteps |-> <<>>]

(***************************************************************************)
(* AgentRegistry.orchestrateWorkflow                                       *)
(***************************************************************************)
\* The step shapes workflows are built from: no dependency, a dependency on
\* another step's task, a dependency no step produces, an unregistered type.
StepShapes ==
    { [agentType |-> "testing", task |-> "A", dependencies |-> <<>>],
      [agentType |-> "manager", task |-> "B", dependencies |-> <<"A">>],
      [agentType |-> "testing", task |-> "C", dependencies |-> <<"Z">>],
      [agentType |-> "manager", task |-> "B", dependencies |-> <<>>],
      [agentType |-> "ghost", task |-> "A", dependencies |-> <<"B">>] }

WorkflowInputs == UNION {[1 .. n -> StepShapes] : n \in 0 .. MaxSteps}

OrchestrateWorkflow ==
    /\ initialized
    /\ NoRequest
    /\ \E name \in WorkflowNames, steps \in WorkflowInputs :
          wf' = [pc |-> "loop", name |-> name, steps |-> steps, i |-> 1,
                 stepResults |-> EmptyMap, executedSteps |-> <<>>]
    /\ UNCHANGED <<env, client, lastRegister, now, emitted, agents, initialized,
                   calls, store, writes, nextId, single, batch, response,
                   wfLog, report>>

\* Mutant: the filter keeps the dependencies that are present.
MissingDepsInverted(step, stepResults) ==
    SelectSeq(step.dependencies, LAMBDA dep : dep \in DOMAIN stepResults)

\* step.dependencies.filter(dep => !stepResults.has(dep))
MissingDeps(step, stepResults) ==
    SelectSeq(step.dependencies, LAMBDA dep : dep \notin DOMAIN stepResults)

\* Mutant: the dependency check never skips a step.
SkipStepNever(step, stepResults) == FALSE

\* The dependency check of the loop body: true when the step is skipped.
SkipStep(step, stepResults) ==
    /\ Len(step.dependencies) > 0
    /\ Len(MissingDeps(step, stepResults)) > 0

\* Mutant: a skipped step leaves its task as a key of stepResults.
ContinueRecordsTask(w) ==
    [w EXCEPT !.i = w.i + 1,
              !.stepResults =
                  [k \in (DOMAIN w.stepResults) \cup {w.steps[w.i].task} |->
                      IF k \in DOMAIN w.stepResults THEN w.stepResults[k]
                                                    ELSE NoOutput]]

\* Mutant: skipping a step aborts a workflow that is not "non-critical".
ContinueAbortsCritical(w) ==
    IF w.name # "non-critical"
    THEN [w EXCEPT !.pc = "raised"]
    ELSE [w EXCEPT !.i = w.i + 1]

\* continue: the loop goes to the next step and nothing else changes.
Continue(w) == [w EXCEPT !.i = w.i + 1]

\* One iteration of the for loop up to its await: skip the step, or call
\* executeTask for it.
WorkflowStep ==
    /\ wf.pc = "loop"
    /\ wf.i <= Len(wf.steps)
    /\ \E suffix \in entropy, skew \in Skews :
       LET step == wf.steps[wf.i]
           skip == SkipStep(step, wf.stepResults) IN
       /\ wf' = IF skip THEN Continue(wf)
                        ELSE [wf EXCEPT !.pc = "awaiting"]
       /\ calls' = IF skip THEN calls
                   ELSE [calls EXCEPT
                            ![wf.i] = StartCall(step.agentType, step.task, nextId,
                                                now, suffix, skew)]
       /\ now' = IF skip THEN now
                 ELSE ClockAfterStart(step.agentType, now, skew)
       /\ nextId' = IF skip \/ getAgent(step.agentType) = Null
                    THEN nextId ELSE nextId + 1
       /\ wfLog' = [k \in (DOMAIN wfLog) \cup {wf.i} |->
                       IF k = wf.i
                       THEN [decision |-> IF skip THEN "skipped" ELSE "attempted",
                             keys |-> DOMAIN wf.stepResults]
                       ELSE wfLog[k]]
    /\ UNCHANGED <<env, client, lastRegister, emitted, agents, initialized, store,
                   writes, single, batch, response, report>>

\* Mutant: a failed step never aborts the workflow.
RethrowsNever(name) == FALSE

\* Mutant: a failed step aborts every workflow.
RethrowsAlways(name) == TRUE

\* if (workflow.name !== 'non-critical') throw error
Rethrows(name) == name # "non-critical"

\* stepResults.set(step.task, result)
\* Mutant: a key that is already present keeps its first value.
MapSetKeepsFirst(map, key, value) ==
    [k \in (DOMAIN map) \cup {key} |->
        IF k \in DOMAIN map THEN map[k] ELSE value]

MapSet(map, key, value) ==
    [k \in (DOMAIN map) \cup {key} |-> IF k = key THEN value ELSE map[k]]

\* Mutant: the catch block also stores the failed step's result under its
\* task.
WorkflowResumeKeysFailure ==
    /\ wf.pc = "awaiting"
    /\ Settled(wf.i)
    /\ LET step == wf.steps[wf.i]
           call == calls[wf.i] IN
       wf' = IF call.pc = "returned"
             THEN [wf EXCEPT
                      !.pc = "loop", !.i = wf.i + 1,
                      !.stepResults = MapSet(wf.stepResults, step.task, call.value),
                      !.executedSteps = Append(wf.executedSteps,
                          [step |-> step, index |-> wf.i, result |-> call.value,
                           error |-> Null, status |-> "completed"])]
             ELSE [wf EXCEPT
                      !.pc = IF Rethrows(wf.name) THEN "raised" ELSE "loop",
                      !.i = IF Rethrows(wf.name) THEN wf.i ELSE wf.i + 1,
                      !.stepResults = MapSet(wf.stepResults, step.task, NoOutput),
                      !.executedSteps = Append(wf.executedSteps,
                          [step |-> step, index |-> wf.i, result |-> NoOutput,
                           error |-> call.error, status |-> "failed"])]
    /\ UNCHANGED <<env, client, lastRegister, now, emitted, agents, initialized,
                   calls, store, writes, nextId, single, batch, response,
                   wfLog, report>>

\* executeTask of the current step settled: the rest of the try block, or the
\* catch block.
WorkflowResume ==
    /\ wf.pc = "awaiting"
    /\ Settled(wf.i)
    /\ LET step == wf.steps[wf.i]
           call == calls[wf.i] IN
       wf' = IF call.pc = "returned"
             THEN [wf EXCEPT
                      !.pc = "loop", !.i = wf.i + 1,
                      !.stepResults = MapSet(wf.stepResults, step.task, call.value),
                      !.executedSteps = Append(wf.executedSteps,
                          [step |-> step, index |-> wf.i, result |-> call.value,
                           error |-> Null, status |-> "completed"])]
             ELSE [wf EXCEPT
                      !.pc = IF Rethrows(wf.name) THEN "raised" ELSE "loop",
                      !.i = IF Rethrows(wf.name) THEN wf.i ELSE wf.i + 1,
                      !.executedSteps = Append(wf.executedSteps,
                          [step |-> step, index |-> wf.i, result |-> NoOutput,
                           error |-> call.error, status |-> "failed"])]
    /\ UNCHANGED <<env, client, lastRegister, now, emitted, agents, initialized,
                   calls, store, writes, nextId, single, batch, response,
                   wfLog, report>>

WithStatus(executedSteps, status) ==
    SelectSeq(executedSteps, LAMBDA s : s.status = status)

\* Mutant: totalSteps counts the attempted steps only.
ReportCountsAttempted(w) ==
    [workflow |-> w.name,
     totalSteps |-> Len(w.executedSteps),
     completedSteps |-> Len(WithStatus(w.executedSteps, "completed")),
     failedSteps |-> Len(WithStatus(w.executedSteps, "failed")),
     results |-> w.stepResults,
     steps |-> w.executedSteps]

\* The object orchestrateWorkflow returns.
Report(w) ==
    [workflow |-> w.name,
     totalSteps |-> Len(w.steps),
     completedSteps |-> Len(WithStatus(w.executedSteps, "completed")),
     failedSteps |-> Len(WithStatus(w.executedSteps, "failed")),
     results |-> w.stepResults,
     steps |-> w.executedSteps]

\* The loop has run out of steps.
WorkflowReturn ==
    /\ wf.pc = "loop"
    /\ wf.i > Len(wf.steps)
    /\ wf' = [wf EXCEPT !.pc = "done"]
    /\ report' = Report(wf)
    /\ UNCHANGED <<env, client, lastRegister, now, emitted, agents, initialized,
                   calls, store, writes, nextId, single, batch, response,
                   wfLog>>

NoReport == [workflow |-> Null, totalSteps |-> 0, completedSteps |-> 0,
             failedSteps |-> 0, results |-> EmptyMap, steps |-> <<>>]

Init ==
    /\ faulty = FALSE
    /\ timed = FALSE
    /\ entropy = {"k3x9q"}
    /\ lastRegister = NoRegistration
    /\ now = 0
    /\ emitted = <<>>
    /\ agents = EmptyMap
    /\ initialized = FALSE
    /\ calls = [c \in CallIds |-> NoCall]
    /\ store = EmptyMap
    /\ writes = EmptyMap
    /\ nextId = 1
    /\ single = NoSingle
    /\ batch = NoBatch
    /\ response = <<>>
    /\ wf = NoWorkflow
    /\ wfLog = EmptyMap
    /\ report = NoReport
    /\ client = NoClient

Next ==
    \/ OnModuleInit
    \/ ExecuteAgentTask
    \/ ExecuteAgentTaskSettle
    \/ HandleAgentTaskRequest
    \/ TaskRequestSettled
    \/ ExecuteTasks
    \/ \E i \in CallIds : BatchSettle(i)
    \/ BatchReturn
    \/ OrchestrateWorkflow
    \/ WorkflowStep
    \/ WorkflowResume
    \/ WorkflowReturn
    \/ \E c \in CallIds : SaveRunning(c)
    \/ \E c \in CallIds : ExecuteSettles(c)
    \/ \E c \in CallIds : SaveTerminal(c)

Spec == Init /\ [][Next]_vars

\* Every started save resolves, every invoked executor returns or throws,
\* and the event loop runs every continuation that is ready.
Fairness ==
    /\ \A c \in CallIds :
          /\ WF_vars(SaveRunning(c))
          /\ WF_vars(ExecuteSettles(c))
          /\ WF_vars(SaveTerminal(c))
    /\ \A i \in CallIds : WF_vars(BatchSettle(i))
    /\ WF_vars(ExecuteAgentTaskSettle)
    /\ WF_vars(TaskRequestSettled)
    /\ WF_vars(BatchReturn)
    /\ WF_vars(WorkflowStep)
    /\ WF_vars(WorkflowResume)
    /\ WF_vars(WorkflowReturn)

LiveSpec == Spec /\ Fairness

\* The same program over a store that may reject any save.
FaultInit ==
    /\ faulty = TRUE
    /\ timed = FALSE
    /\ entropy = {"k3x9q"}
    /\ lastRegister = NoRegistration
    /\ now = 0
    /\ emitted = <<>>
    /\ agents = EmptyMap
    /\ initialized = FALSE
    /\ calls = [c \in CallIds |-> NoCall]
    /\ store = EmptyMap
    /\ writes = EmptyMap
    /\ nextId = 1
    /\ single = NoSingle
    /\ batch = NoBatch
    /\ response = <<>>
    /\ wf = NoWorkflow
    /\ wfLog = EmptyMap
    /\ report = NoReport
    /\ client = NoClient

FaultSpec == FaultInit /\ [][Next]_vars

\* The registry under registerAgent calls made after onModuleInit, followed
\* through one task: the application registers, replaces or fails to
\* register executors at any moment.
RegistryNext ==
    \/ OnModuleInit
    \/ \E type \in RequestTypes, agent \in Executors : Register(type, agent)
    \/ ExecuteAgentTask
    \/ ExecuteAgentTaskSettle
    \/ \E c \in CallIds : SaveRunning(c)
    \/ \E c \in CallIds : ExecuteSettles(c)
    \/ \E c \in CallIds : SaveTerminal(c)

RegistrySpec == Init /\ [][RegistryNext]_vars

\* The task and batch paths under a clock that advances while the program
\* runs and a Math.random() with more than one outcome.
TimeInit ==
    /\ faulty = FALSE
    /\ timed = TRUE
    /\ entropy = {"k3x9q", "p07mz"}
    /\ lastRegister = NoRegistration
    /\ now = 0
    /\ emitted = <<>>
    /\ agents = EmptyMap
    /\ initialized = FALSE
    /\ calls = [c \in CallIds |-> NoCall]
    /\ store = EmptyMap
    /\ writes = EmptyMap
    /\ nextId = 1
    /\ single = NoSingle
    /\ batch = NoBatch
    /\ response = <<>>
    /\ wf = NoWorkflow
    /\ wfLog = EmptyMap
    /\ report = NoReport
    /\ client = NoClient

TimeNext ==
    \/ OnModuleInit
    \/ ExecuteAgentTask
    \/ ExecuteAgentTaskSettle
    \/ ExecuteTwins
    \/ \E i \in CallIds : BatchSettle(i)
    \/ BatchReturn
    \/ \E c \in CallIds : SaveRunning(c)
    \/ \E c \in CallIds : ExecuteSettles(c)
    \/ \E c \in CallIds : SaveTerminal(c)

TimeSpec == TimeInit /\ [][TimeNext]_vars

\* The service under a batch that asks one executor for more executions at
\* once than its maxConcurrent.
LoadNext ==
    \/ OnModuleInit
    \/ ExecuteOverload
    \/ \E i \in CallIds : BatchSettle(i)
    \/ BatchReturn
    \/ \E c \in CallIds : SaveRunning(c)
    \/ \E c \in CallIds : ExecuteSettles(c)
    \/ \E c \in CallIds : SaveTerminal(c)

LoadSpec == Init /\ [][LoadNext]_vars

\* The browser and the gateway: the socket is connected or not when the user
\* starts a task; a connected client is in the room the events go to and its
\* listeners are registered.
ClientInit ==
    /\ faulty = FALSE
    /\ timed = FALSE
    /\ entropy = {"k3x9q", "p07mz"}
    /\ lastRegister = NoRegistration
    /\ now = 0
    /\ emitted = <<>>
    /\ agents = EmptyMap
    /\ initialized = FALSE
    /\ calls = [c \in CallIds |-> NoCall]
    /\ store = EmptyMap
    /\ writes = EmptyMap
    /\ nextId = 1
    /\ single = NoSingle
    /\ batch = NoBatch
    /\ response = <<>>
    /\ wf = NoWorkflow
    /\ wfLog = EmptyMap
    /\ report = NoReport
    /\ \E connected \in BOOLEAN :
          client = [NoClient EXCEPT !.isConnected = connected]

ClientNext ==
    \/ OnModuleInit
    \/ ClientExecuteTask
    \/ ClientTaskRequest
    \/ ExecuteAgentTaskSettle
    \/ TaskRequestSettled
    \/ ClientReceives
    \/ \E c \in CallIds : SaveRunning(c)
    \/ \E c \in CallIds : ExecuteSettles(c)
    \/ \E c \in CallIds : SaveTerminal(c)

ClientSpec == ClientInit /\ [][ClientNext]_vars

\* Every message is handled and every event delivered.
ClientFairness ==
    /\ WF_vars(OnModuleInit)
    /\ WF_vars(ClientTaskRequest)
    /\ WF_vars(ExecuteAgentTaskSettle)
    /\ WF_vars(TaskRequestSettled)
    /\ WF_vars(ClientReceives)
    /\ \A c \in CallIds : WF_vars(SaveRunning(c))
    /\ \A c \in CallIds : WF_vars(ExecuteSettles(c))
    /\ \A c \in CallIds : WF_vars(SaveTerminal(c))

ClientLiveSpec == ClientSpec /\ ClientFairness

(***************************************************************************)
(* Properties                                                              *)
(***************************************************************************)
Terminal == {"completed", "failed"}

\* Row ids that can exist: one per executeTask invocation.
RowIds == 1 .. Cardinality(CallIds)

Range(seq) == {seq[k] : k \in DOMAIN seq}

Running(id) == id \in DOMAIN store /\ store[id].status = "running"

Finished(id) == id \in DOMAIN store /\ store[id].status \in Terminal

\* C1: every execution record persisted in status running is eventually
\* updated to completed or failed (the saves resolve and the executor returns
\* or throws); no record stays in running forever.
C1_RunningLeadsToTerminal ==
    \A id \in RowIds : Running(id) ~> Finished(id)

\* C1 witness: a row was saved as running and later saved as failed after the
\* executor threw.
C1_Witness ==
    \E c \in CallIds :
        /\ calls[c].outcome = "throw"
        /\ Settled(c)
        /\ Len(writes[calls[c].agentExecution.id]) = 2
        /\ writes[calls[c].agentExecution.id][1].status = "running"
        /\ Finished(calls[c].agentExecution.id)

ExecutorFailed(c) == calls[c].outcome \in {"failure", "throw"}

\* The failure reason the executor of call c gave.
Reason(c) ==
    IF calls[c].outcome = "throw" THEN ExceptionMessage
                                  ELSE ExecuteResult(calls[c].outcome).error

C4_NotFoundLeavesNoTrace ==
    /\ \A c \in CallIds :
          (calls[c].pc # "idle" /\ ~calls[c].registered) =>
              /\ calls[c].pc = "raised"
              /\ calls[c].error = NotAvailable(calls[c].agentType)
              /\ calls[c].agentExecution = NoExecution
              /\ calls[c].invoked = 0
              /\ calls[c].outcome = Null
              /\ \A id \in DOMAIN writes :
                    \A k \in DOMAIN writes[id] : writes[id][k].by # c
    /\ (single.pc # "idle" /\ ~calls[1].registered) =>
          /\ store = EmptyMap
          /\ nextId = 1

\* C4 witness: a single task on the unregistered type has been answered.
C4_Witness ==
    /\ single.pc = "done"
    /\ calls[1].agentType = "ghost"
    /\ calls[1].pc = "raised"

\* The executedSteps entry of step k, if any.
EntriesOf(k) == {e \in Range(wf.executedSteps) : e.index = k}

C6_PositionAligned ==
    batch.pc = "done" =>
        /\ Len(batch.results) = Len(batch.requests)
        /\ Len(response) = Len(batch.requests)
        /\ \A i \in DOMAIN batch.requests :
              /\ response[i].request = batch.requests[i]
              /\ response[i].result = batch.results[i]
              /\ calls[i].agentType = batch.requests[i].agentType
              /\ calls[i].pc = "returned" =>
                    /\ batch.results[i] = calls[i].value
                    /\ batch.results[i].agentExecutionId = calls[i].agentExecution.id
              /\ calls[i].pc = "raised" =>
                    /\ ~batch.results[i].success
                    /\ batch.results[i].error = calls[i].error
                    /\ batch.results[i].agentType = batch.requests[i].agentType

\* C6 witness: both requests of a batch succeeded, the second one first.
C6_Witness ==
    /\ batch.pc = "done"
    /\ batch.order = <<2, 1>>
    /\ calls[1].pc = "returned"
    /\ calls[2].pc = "returned"

\* C7: executeTasks never raises: a request whose executeTask raised holds, at
\* its own position, exactly the stub {success: false, error, agentType}; the
\* other positions hold what their own calls returned, each decided by its
\* own executor alone.
C7_BatchNeverRaises ==
    /\ batch.pc # "raised"
    /\ \A i \in batch.settled :
          /\ calls[i].pc = "raised" =>
                batch.values[i] = [NoOutput EXCEPT
                                      !.error = calls[i].error,
                                      !.agentType = batch.requests[i].agentType]
          /\ calls[i].pc = "returned" =>
                /\ batch.values[i] = calls[i].value
                /\ batch.values[i].success
          /\ calls[i].registered =>
                (calls[i].pc = "returned" <=> calls[i].outcome = "success")
    /\ batch.pc = "done" =>
          /\ batch.settled = DOMAIN batch.requests
          /\ batch.results = batch.values

\* C7 witness: a batch has returned with the stub of an unregistered type at
\* position 1 and a successful result at position 2.
C7_Witness ==
    /\ batch.pc = "done"
    /\ Len(batch.results) = 2
    /\ ~calls[1].registered
    /\ batch.results[1].error = NotAvailable("ghost")
    /\ batch.results[1].agentType = "ghost"
    /\ batch.results[2].success

\* The steps of testable property 4: A, B depending on A, C depending on a
\* key that is never produced.
DependencyExample ==
    << [agentType |-> "testing", task |-> "A", dependencies |-> <<>>],
       [agentType |-> "manager", task |-> "B", dependencies |-> <<"A">>],
       [agentType |-> "testing", task |-> "C", dependencies |-> <<"Z">>] >>

Completed(k) == \E e \in EntriesOf(k) : e.status = "completed"

\* C8: a workflow step is handed to executeTask only if each of its
\* dependencies was a key of stepResults at that moment; a step with a
\* missing dependency is skipped: no call, no row, no log entry, and the keys
\* of stepResults are exactly the tasks of the completed steps.  For the steps
\* [A, B depending on A, C depending on Z], when A and B succeed, the report
\* has the keys A and B only and two log entries.
C8_DependenciesGateSteps ==
    /\ \A k \in DOMAIN wfLog :
          LET deps == Range(wf.steps[k].dependencies) IN
          /\ wfLog[k].decision = "attempted" =>
                /\ deps \subseteq wfLog[k].keys
                /\ calls[k].pc # "idle"
          /\ wfLog[k].decision = "skipped" =>
                /\ ~(deps \subseteq wfLog[k].keys)
                /\ calls[k] = NoCall
                /\ EntriesOf(k) = {}
                /\ \A id \in DOMAIN writes : writes[id][1].by # k
    /\ wf.pc # "idle" =>
          /\ \A k \in CallIds : calls[k].pc # "idle" => k \in DOMAIN wfLog
          /\ DOMAIN wf.stepResults =
                {wf.steps[k].task : k \in {j \in DOMAIN wf.steps : Completed(j)}}
    /\ (wf.pc = "done" /\ wf.steps = DependencyExample /\ report.failedSteps = 0) =>
          /\ DOMAIN report.results = {"A", "B"}
          /\ Len(report.steps) = 2
          /\ report.steps[1].index = 1
          /\ report.steps[2].index = 2
          /\ wfLog[3].decision = "skipped"

\* C8 witness: the workflow [A, B depending on A, C depending on Z] has
\* returned its report after A and B completed.
C8_Witness ==
    /\ wf.pc = "done"
    /\ wf.steps = DependencyExample
    /\ report.completedSteps = 2
    /\ DOMAIN report.results = {"A", "B"}

Failed(k) == \E e \in EntriesOf(k) : e.status = "failed"

\* C9: in a workflow whose name is not "non-critical" the first failed step
\* makes orchestrateWorkflow raise at once: the failed entry is the last of
\* the log, and no later step is looked at, called, or given a row, and no
\* report is returned.
C9_CriticalAbortsOnFirstFailure ==
    (wf.pc # "idle" /\ wf.name # "non-critical") =>
        /\ \A k \in DOMAIN wf.steps :
              (calls[k].pc = "raised" /\ wf.pc # "awaiting") =>
                  /\ wf.pc = "raised"
                  /\ wf.i = k
                  /\ Failed(k)
                  /\ wf.executedSteps[Len(wf.executedSteps)].index = k
                  /\ report = NoReport
                  /\ \A j \in DOMAIN wf.steps :
                        j > k =>
                            /\ calls[j] = NoCall
                            /\ j \notin DOMAIN wfLog
                            /\ \A id \in DOMAIN writes : writes[id][1].by # j
        /\ wf.pc = "raised" <=> (\E k \in DOMAIN wf.steps : Failed(k))
        /\ wf.pc = "done" => report.failedSteps = 0

\* C9 witness: a workflow named "critical-flow" has raised on its first step
\* while its second step, which has no dependencies, was never called.
C9_Witness ==
    /\ wf.pc = "raised"
    /\ wf.name = "critical-flow"
    /\ Len(wf.steps) >= 2
    /\ wf.steps[2].dependencies = <<>>
    /\ Failed(1)
    /\ calls[2] = NoCall

\* C10: a workflow named "non-critical" never raises: each failed step is
\* logged with status failed and the loop goes on; when the report is
\* returned every step was either skipped for a missing dependency or called,
\* and the report lists the failed and the completed entries of all calls.
C10_NonCriticalContinues ==
    wf.name = "non-critical" =>
        /\ wf.pc # "raised"
        /\ \A k \in DOMAIN wf.steps :
              (calls[k].pc = "raised" /\ (wf.i > k \/ wf.pc = "done")) => Failed(k)
        /\ wf.pc = "done" =>
              /\ \A k \in DOMAIN wf.steps :
                    /\ k \in DOMAIN wfLog
                    /\ wfLog[k].decision = "attempted" <=>
                          Range(wf.steps[k].dependencies) \subseteq wfLog[k].keys
                    /\ wfLog[k].decision = "attempted" =>
                          /\ Settled(k)
                          /\ calls[k].pc = "raised" <=>
                                (\E n \in DOMAIN report.steps :
                                    /\ report.steps[n].index = k
                                    /\ report.steps[n].status = "failed"
                                    /\ report.steps[n].error = calls[k].error)
                          /\ calls[k].pc = "returned" <=>
                                (\E n \in DOMAIN report.steps :
                                    /\ report.steps[n].index = k
                                    /\ report.steps[n].status = "completed"
                                    /\ report.steps[n].result = calls[k].value)
              /\ report.failedSteps =
                    Cardinality({k \in DOMAIN wf.steps : calls[k].pc = "raised"})
              /\ report.completedSteps =
                    Cardinality({k \in DOMAIN wf.steps : calls[k].pc = "returned"})

\* C10 witness: a workflow named "non-critical" has returned a report whose
\* first entry is the failed step A and whose second entry is the completed
\* independent step B.
C10_Witness ==
    /\ wf.pc = "done"
    /\ wf.name = "non-critical"
    /\ Len(report.steps) >= 2
    /\ report.steps[1].status = "failed"
    /\ report.steps[1].step.task = "A"
    /\ report.steps[2].status = "completed"
    /\ report.steps[2].step.task = "B"
    /\ report.steps[2].step.dependencies = <<>>
    /\ report.failedSteps = 1
    /\ report.completedSteps = 1

\* The executeTask call c was made right after registerAgent(type, agent):
\* no other registerAgent call came between the two.
StartedAfter(c, type, agent) ==
    /\ calls[c].pc # "idle"
    /\ calls[c].after = [type |-> type, agent |-> agent]

\* executeTask call c raised "not available" at the lookup: no entity, no
\* executor invoked.
RaisedNotFound(c) ==
    /\ calls[c].pc = "raised"
    /\ calls[c].error = NotAvailable(calls[c].agentType)
    /\ calls[c].agent = Null
    /\ calls[c].invoked = 0
    /\ calls[c].agentExecution = NoExecution

\* C11 as stated: after registerAgent(type, executor) with a disabled
\* executor, getAgent(type) does not return that executor and an executeTask
\* call against that type raises "not available", for every type.
C11_DisabledTypeAlwaysNotFound ==
    /\ \A t \in DOMAIN agents : isEnabled(agents[t])
    /\ \A c \in CallIds : \A agent \in Executors :
          (~isEnabled(agent) /\ StartedAfter(c, calls[c].agentType, agent))
             => RaisedNotFound(c)

\* C11 amended: a disabled executor is never retrievable, and registering
\* one changes nothing: an executeTask call against that type raises "not
\* available" exactly when no enabled executor was registered under the type
\* before, and otherwise runs that enabled executor.
C11_DisabledRegistrationIgnored ==
    /\ \A t \in DOMAIN agents : isEnabled(agents[t])
    /\ \A c \in CallIds : \A agent \in Executors :
          (~isEnabled(agent) /\ StartedAfter(c, calls[c].agentType, agent))
             => /\ calls[c].agent # agent
                /\ ~calls[c].registered => RaisedNotFound(c)
                /\ calls[c].registered =>
                      /\ calls[c].agent \in Agents
                      /\ isEnabled(calls[c].agent)
                      /\ calls[c].agentExecution.agentName
                            = getConfig(calls[c].agent).name
                      /\ ~RaisedNotFound(c)

\* C11 witness: a disabled executor was registered under the unregistered
\* type "ghost" and the task then requested for "ghost" raised "not
\* available".
C11_Witness ==
    /\ StartedAfter(1, "ghost", "DisabledAgent")
    /\ calls[1].agentType = "ghost"
    /\ RaisedNotFound(1)
    /\ single.pc = "done"
    /\ ~single.success

\* C12: registerAgent(type, e2) with an enabled e2 on a registered type
\* replaces the executor: getAgent(type) then returns e2 until the next
\* registerAgent call, an executeTask call made then runs e2 and not the old
\* executor, and the registry holds one enabled executor per type.
C12_LastWriteWins ==
    /\ agents \in [DOMAIN agents -> Agents]
    /\ (lastRegister # NoRegistration /\ isEnabled(lastRegister.agent))
          => getAgent(lastRegister.type) = lastRegister.agent
    /\ \A c \in CallIds : \A agent \in Agents :
          StartedAfter(c, calls[c].agentType, agent)
             => /\ calls[c].agent = agent
                /\ calls[c].agentExecution.agentName = getConfig(agent).name
                /\ calls[c].agentExecution.agentType = getConfig(agent).type

\* C12 witness: TestingAgent replaced ManagerAgent under "manager"; the
\* "manager" task requested afterwards ran TestingAgent to completion.
C12_Witness ==
    /\ StartedAfter(1, "manager", "TestingAgent")
    /\ calls[1].agentType = "manager"
    /\ calls[1].registered
    /\ calls[1].agent = "TestingAgent"
    /\ calls[1].invoked = 1
    /\ calls[1].pc = "returned"
    /\ store[calls[1].agentExecution.id].agentName = "TestingAgent"

Abs(x) == IF x < 0 THEN 0 - x ELSE x

\* The rows some save of call c wrote.
RowsOf(c) ==
    {id \in DOMAIN writes : \E k \in DOMAIN writes[id] : writes[id][k].by = c}

\* What two clock reads of one synchronous stretch may differ by.
Tolerance == MaxSkew

\* C13: every executeTask call that returned (the executor succeeded) leaves
\* exactly one row, saved first as running and then as completed, whose
\* completedAt is not before its startedAt and whose duration differs from
\* completedAt - startedAt by no more than the time between two adjacent
\* clock reads.
C13_RecordLifecycle ==
    \A c \in CallIds :
        calls[c].pc = "returned" =>
            LET id == calls[c].agentExecution.id IN
            /\ RowsOf(c) = {id}
            /\ writes[id] = <<[by |-> c, status |-> "running"],
                              [by |-> c, status |-> "completed"]>>
            /\ store[id].status = "completed"
            /\ store[id].startedAt >= calls[c].startTime
            /\ store[id].completedAt >= store[id].startedAt
            /\ store[id].duration >= 0
            /\ Abs(store[id].duration
                     - (store[id].completedAt - store[id].startedAt))
                  <= Tolerance

\* C13 witness: a task succeeded after a slow executor, and the clock
\* advanced between startTime and startedAt, so that the stored duration is
\* one millisecond more than completedAt - startedAt.
C13_Witness ==
    /\ single.pc = "done"
    /\ single.success
    /\ calls[1].pc = "returned"
    /\ LET row == store[calls[1].agentExecution.id] IN
       /\ row.status = "completed"
       /\ row.completedAt - row.startedAt >= MaxElapsed
       /\ row.duration = (row.completedAt - row.startedAt) + 1

\* executeTask call c got past the lookup: it stamped a request id and
\* processTask created an entity.
Stamped(c) == calls[c].pc # "idle" /\ calls[c].agent # Null

\* C14: any two executeTask calls, also two with identical (agentType, task)
\* made concurrently, have distinct entity ids and distinct
\* metadata.requestId, and the rows of the store have pairwise distinct ids.
C14_DistinctRecordAndRequestIds ==
    /\ \A c1, c2 \in CallIds :
          (c1 # c2 /\ Stamped(c1) /\ Stamped(c2))
             => /\ calls[c1].agentExecution.id # calls[c2].agentExecution.id
                /\ calls[c1].requestId # calls[c2].requestId
    /\ \A i, j \in DOMAIN store : i # j => store[i].id # store[j].id

\* The step indexes the loop skipped, and those it handed to executeTask.
SkippedSteps == {k \in DOMAIN wfLog : wfLog[k].decision = "skipped"}

AttemptedSteps == {k \in DOMAIN wfLog : wfLog[k].decision = "attempted"}

\* C15: the report orchestrateWorkflow returns has totalSteps = the number
\* of declared steps, steps = one entry per attempted step in execution
\* order and none for a skipped step, completedSteps and failedSteps = the
\* numbers of completed and failed entries; so completedSteps + failedSteps
\* + the number of skipped steps = totalSteps.
C15_ReportCounts ==
    wf.pc = "done" =>
        /\ report.workflow = wf.name
        /\ report.totalSteps = Len(wf.steps)
        /\ DOMAIN wfLog = DOMAIN wf.steps
        /\ {report.steps[n].index : n \in DOMAIN report.steps} = AttemptedSteps
        /\ Len(report.steps) = Cardinality(AttemptedSteps)
        /\ \A m, n \in DOMAIN report.steps :
              m < n => report.steps[m].index < report.steps[n].index
        /\ \A n \in DOMAIN report.steps :
              LET e == report.steps[n] IN
              /\ e.step = wf.steps[e.index]
              /\ e.status = IF calls[e.index].pc = "returned"
                            THEN "completed" ELSE "failed"
        /\ report.completedSteps =
              Cardinality({n \in DOMAIN report.steps :
                              report.steps[n].status = "completed"})
        /\ report.failedSteps =
              Cardinality({n \in DOMAIN report.steps :
                              report.steps[n].status = "failed"})
        /\ report.completedSteps + report.failedSteps
              + Cardinality(SkippedSteps) = report.totalSteps

\* C15 witness: a report of three declared steps of which one completed, one
\* was skipped and one failed.
C15_Witness ==
    /\ wf.pc = "done"
    /\ report.totalSteps = 3
    /\ report.completedSteps = 1
    /\ report.failedSteps = 1
    /\ Cardinality(SkippedSteps) = 1
    /\ Len(report.steps) = 2

TerminalEvents ==
    SelectSeq(emitted, LAMBDA e : e.event \in {"task_completed", "task_failed"})

StartedEvents == SelectSeq(emitted, LAMBDA e : e.event = "task_started")

\* A task request of the gateway is being served, or has been.
GatewayRequest == single.via = "gateway"

\* The order of the gateway's events at every moment.
EventOrder ==
    /\ GatewayRequest <=> emitted # <<>>
    /\ GatewayRequest =>
          /\ emitted[1] = TaskStarted(single.request)
          /\ Len(StartedEvents) = 1
          /\ Len(TerminalEvents) <= 1
          /\ calls[1].agentType = single.request.agentType
          /\ Len(TerminalEvents) = 1 <=> single.answered
          /\ single.answered =>
                /\ Settled(1)
                /\ single.pc = "done"
                /\ Len(emitted) = 2
                /\ emitted[2].agentType = single.request.agentType
                /\ emitted[2].task = single.request.task

\* C17: for every task request the gateway handles, task_started is emitted
\* before the executor is invoked and before any terminal event; exactly one
\* terminal event (task_completed or task_failed) follows, and only after
\* executeTask has settled.
C17_StartedThenOneTerminalEvent ==
    /\ []EventOrder
    /\ (GatewayRequest /\ single.pc = "awaiting") ~> single.answered

\* C17 witness: the gateway emitted task_started, the executor was invoked
\* and succeeded, and the gateway then emitted its terminal event.
C17_Witness ==
    /\ GatewayRequest
    /\ single.answered
    /\ calls[1].invoked = 1
    /\ calls[1].pc = "returned"
    /\ Len(emitted) = 2
    /\ emitted[1].event = "task_started"
    /\ emitted[2].event = "task_completed"

\* The requested task failed: the type is not registered, or the executor
\* returned success=false or threw.
TaskFailed == calls[1].pc = "raised"

\* C18: when the requested task fails the gateway emits task_failed, and it
\* emits task_completed only when the task succeeded.
C18_FailureEmitsTaskFailed ==
    (GatewayRequest /\ single.answered) =>
        /\ TaskFailed => emitted[2].event = "task_failed"
        /\ emitted[2].event = "task_completed" => calls[1].pc = "returned"

\* The executeTask calls that have started and not settled.
InFlight == {c \in CallIds : calls[c].pc \in {"saving", "executing", "updating"}}

\* The dependencies of step k that no completed earlier step produced.
Lacking(k) ==
    {dep \in Range(wf.steps[k].dependencies) :
        ~\E i \in 1 .. (k - 1) : wf.steps[i].task = dep /\ Completed(i)}

\* C19: orchestrateWorkflow looks at the steps in list order, one at a time:
\* a step is decided only when every earlier step was skipped or its
\* executeTask call has settled and been logged, at most one call is in
\* flight, the log is in list order, and a step whose dependency is produced
\* only by a later-listed step is skipped and stays without a call even when
\* that later step completes.
C19_ListOrderOneAtATime ==
    wf.pc # "idle" =>
        /\ Cardinality(InFlight) <= 1
        /\ InFlight \subseteq {wf.i}
        /\ InFlight # {} => wf.pc = "awaiting"
        /\ \E n \in 0 .. Len(wf.steps) : DOMAIN wfLog = 1 .. n
        /\ \A k \in DOMAIN wfLog : \A i \in 1 .. (k - 1) :
              \/ wfLog[i].decision = "skipped"
              \/ Settled(i) /\ EntriesOf(i) # {}
        /\ \A m, n \in DOMAIN wf.executedSteps :
              m < n => wf.executedSteps[m].index < wf.executedSteps[n].index
        /\ \A k \in DOMAIN wfLog : \A j \in DOMAIN wf.steps :
              (j > k /\ wf.steps[j].task \in Lacking(k)) =>
                  /\ wfLog[k].decision = "skipped"
                  /\ calls[k] = NoCall
                  /\ EntriesOf(k) = {}

\* C19 witness: the first step depends on task B, which only the second
\* step produces; the first was skipped, the second completed, and the
\* workflow returned without going back to the first.
C19_Witness ==
    /\ wf.pc = "done"
    /\ Len(wf.steps) = 2
    /\ wf.steps[1].dependencies = <<"B">>
    /\ wf.steps[2].task = "B"
    /\ wfLog[1].decision = "skipped"
    /\ Completed(2)
    /\ calls[1] = NoCall
    /\ report.completedSteps = 1
    /\ report.totalSteps = 2

\* C20: a skipped step adds no key to stepResults, gets no call and no log
\* entry, and is not looked at again; a step is skipped exactly when one of
\* its dependencies was produced by no completed earlier step, so a later
\* step that depends on a skipped step's task is skipped too unless another
\* step with that task completed before it.
C20_SkippedStepGivesNoKey ==
    wf.pc # "idle" =>
        /\ \A k \in DOMAIN wfLog :
              wfLog[k].decision = "skipped" <=> Lacking(k) # {}
        /\ \A k \in SkippedSteps :
              /\ calls[k] = NoCall
              /\ EntriesOf(k) = {}
              /\ wf.i > k
              /\ (k + 1) \in DOMAIN wfLog => wfLog[k + 1].keys = wfLog[k].keys
              /\ wf.steps[k].task \in DOMAIN wf.stepResults =>
                    \E i \in DOMAIN wf.steps :
                        /\ i # k
                        /\ wf.steps[i].task = wf.steps[k].task
                        /\ Completed(i)
              /\ \A j \in DOMAIN wfLog :
                    (j > k /\ wf.steps[k].task \in Range(wf.steps[j].dependencies))
                       => \/ wfLog[j].decision = "skipped"
                          \/ \E i \in 1 .. (j - 1) :
                                /\ i # k
                                /\ wf.steps[i].task = wf.steps[k].task
                                /\ Completed(i)
        /\ DOMAIN wf.stepResults =
              {wf.steps[k].task : k \in {j \in AttemptedSteps : Completed(j)}}

\* C20 witness: step 1 (task A) was skipped for its missing dependency, and
\* step 2, which depends on A, was skipped in turn; the report holds no key.
C20_Witness ==
    /\ wf.pc = "done"
    /\ Len(wf.steps) >= 2
    /\ wf.steps[1].task = "A"
    /\ wf.steps[2].dependencies = <<"A">>
    /\ SkippedSteps = {1, 2}
    /\ DOMAIN report.results = {}

\* The exception of C20: between the skipped step and the dependent step
\* another step with the same task completed, and the dependent step ran.
C20_ExceptionReached ==
    /\ wf.pc = "done"
    /\ Len(wf.steps) = 3
    /\ wf.steps[1].task = "A"
    /\ wfLog[1].decision = "skipped"
    /\ wf.steps[2].task = "A"
    /\ Completed(2)
    /\ wf.steps[3].dependencies = <<"A">>
    /\ wfLog[3].decision = "attempted"


\* C21: a step skipped for a missing dependency never fails the workflow,
\* whatever its name: it leaves no failed entry, the loop goes on to the next
\* step, orchestrateWorkflow raises only at a step it attempted and that
\* failed, and a workflow whose steps were all skipped returns a report with
\* completedSteps = 0 and failedSteps = 0.
C21_SkipNeverFails ==
    wf.pc # "idle" =>
        /\ \A k \in SkippedSteps :
              /\ ~Failed(k)
              /\ wf.i > k
              /\ wf.pc = "raised" => wf.i # k
        /\ wf.pc = "raised" =>
              /\ wf.i \in AttemptedSteps
              /\ Failed(wf.i)
              /\ calls[wf.i].pc = "raised"
        /\ Len(WithStatus(wf.executedSteps, "failed"))
              = Cardinality({k \in AttemptedSteps : Failed(k)})
        /\ (SkippedSteps = DOMAIN wf.steps /\ wf.i > Len(wf.steps)) =>
              /\ wf.pc \in {"loop", "done"}
              /\ wf.executedSteps = <<>>
              /\ wf.pc = "done" =>
                    /\ report.completedSteps = 0
                    /\ report.failedSteps = 0
                    /\ report.totalSteps = Len(wf.steps)

\* C21 witness: a workflow that is not "non-critical" skipped its first
\* step, went on to complete the second, and returned its report.
C21_Witness ==
    /\ wf.pc = "done"
    /\ wf.name = "critical-flow"
    /\ Len(wf.steps) = 2
    /\ SkippedSteps = {1}
    /\ Completed(2)
    /\ report.failedSteps = 0
    /\ report.completedSteps = 1

\* C21, the all-skipped case: a workflow that is not "non-critical" whose
\* three steps were all skipped returned a report with no completed and no
\* failed step.
C21_AllSkippedReached ==
    /\ wf.pc = "done"
    /\ wf.name = "critical-flow"
    /\ Len(wf.steps) = 3
    /\ SkippedSteps = {1, 2, 3}
    /\ report.completedSteps = 0
    /\ report.failedSteps = 0


\* The calls whose executor is inside execute() for the given executor.
Executing(agent) ==
    {c \in CallIds : calls[c].pc = "executing" /\ calls[c].agent = agent}

\* C22: maxConcurrent is declared and never enforced: every request of a
\* batch is dispatched at once, a call that has created its record is never
\* held back by the executions already under way (its save and the entry
\* into execute() are enabled whatever their number), and no call is turned
\* away for lack of capacity.
C22_MaxConcurrentNotEnforced ==
    /\ batch.pc # "idle" =>
          \A i \in DOMAIN batch.requests : calls[i].pc # "idle"
    /\ \A c \in CallIds :
          /\ calls[c].pc = "saving" => ENABLED SaveRunning(c)
          /\ (calls[c].pc = "raised" /\ calls[c].registered) =>
                calls[c].invoked = 1

\* C22 witness: more executions of one executor are inside execute() at the
\* same moment than its maxConcurrent allows.
C22_Witness ==
    \E agent \in Agents :
        /\ Cardinality(Executing(agent)) > getConfig(agent).maxConcurrent
        /\ \A c \in Executing(agent) : Running(calls[c].agentExecution.id)


\* The calls of the batch.
BatchCalls == IF batch.pc = "idle" THEN {} ELSE DOMAIN batch.requests

C24_OutputOnlyIfCompleted ==
    \A id \in DOMAIN store :
        /\ store[id].output # Null => store[id].status = "completed"
        /\ store[id].error # Null => store[id].status = "failed"

\* C24, the half that holds: error is set only on failed records, and a
\* completed record carries the serialized result as its output.
C24_ErrorOnlyIfFailed ==
    \A id \in DOMAIN store :
        /\ store[id].error # Null => store[id].status = "failed"
        /\ store[id].status = "completed" =>
              store[id].output # Null /\ store[id].error = Null
        /\ store[id].status = "running" =>
              store[id].output = Null /\ store[id].error = Null

\* C24, the divergence: a failed record whose output is the error message the
\* executor returned.
C24_FailedRowWithOutput ==
    \E id \in DOMAIN store :
        /\ store[id].status = "failed"
        /\ store[id].output # Null
        /\ store[id].output = store[id].error


\* The statuses ever written to the store.
WrittenStatuses ==
    UNION {{writes[id][k].status : k \in DOMAIN writes[id]} : id \in DOMAIN writes}

DisabledRegistration ==
    /\ initialized
    /\ lastRegister' # lastRegister \/ agents' # agents
    /\ lastRegister' # NoRegistration
    /\ ~isEnabled(lastRegister'.agent)

\* C26: registerAgent(type, disabled executor) leaves the registry map
\* unchanged, so an enabled executor registered before under that type stays
\* registered and retrievable; and in every reachable state every executor
\* in the registry is enabled, getAgentStatus reports every entry enabled,
\* and every executor a call runs is enabled.
C26_DisabledRegistrationIsNoOp ==
    /\ [](/\ \A t \in DOMAIN agents : isEnabled(agents[t])
          /\ \A t \in DOMAIN getAgentStatus : getAgentStatus[t].enabled
          /\ initialized => {"manager", "testing"} \subseteq DOMAIN agents
          /\ \A c \in CallIds :
                calls[c].registered => isEnabled(calls[c].agent))
    /\ [][DisabledRegistration =>
             /\ agents' = agents
             /\ \A t \in DOMAIN agents : getAgent(t)' = getAgent(t)]_vars

\* C26 witness: a disabled executor was registered under "manager", the
\* registry still holds ManagerAgent there, and the task requested after
\* that was run by ManagerAgent and returned.
C26_Witness ==
    /\ lastRegister = [type |-> "manager", agent |-> "DisabledAgent"]
    /\ getAgent("manager") = "ManagerAgent"
    /\ StartedAfter(1, "manager", "DisabledAgent")
    /\ calls[1].agent = "ManagerAgent"
    /\ calls[1].pc = "returned"


\* The steps before j that completed with the given task.
Producers(task, j) ==
    {i \in 1 .. (j - 1) : wf.steps[i].task = task /\ Completed(i)}

\* C27: in a "non-critical" workflow a step whose executeTask failed adds no
\* key to the results, so every later step that lists the failed step's task
\* as a dependency is skipped (not attempted, and not counted in
\* failedSteps), unless another step with the same task has completed before
\* it; the workflow itself goes on and returns.
C27_FailedStepBlocksDependents ==
    (wf.pc # "idle" /\ wf.name = "non-critical") =>
        /\ wf.pc # "raised"
        /\ \A k \in DOMAIN wf.steps : Failed(k) =>
              /\ wf.steps[k].task \in DOMAIN wf.stepResults =>
                    \E i \in DOMAIN wf.steps :
                        /\ i # k
                        /\ Completed(i)
                        /\ wf.steps[i].task = wf.steps[k].task
              /\ \A j \in DOMAIN wfLog :
                    (j > k /\ wf.steps[k].task \in Range(wf.steps[j].dependencies)) =>
                        IF Producers(wf.steps[k].task, j) = {}
                        THEN /\ j \in SkippedSteps
                             /\ calls[j] = NoCall
                             /\ EntriesOf(j) = {}
                        ELSE wf.steps[k].task \in wfLog[j].keys
        /\ wf.pc = "done" =>
              /\ report.failedSteps
                    = Cardinality({k \in DOMAIN wf.steps : Failed(k)})
              /\ \A k \in SkippedSteps : ~Failed(k) /\ ~Completed(k)

\* C27 witness: in a "non-critical" workflow the step producing A failed and
\* the step depending on A was skipped; the report counts one failed step
\* and none completed.
C27_Witness ==
    /\ wf.pc = "done"
    /\ wf.name = "non-critical"
    /\ Len(wf.steps) = 2
    /\ wf.steps[1].task = "A"
    /\ Failed(1)
    /\ wf.steps[2].dependencies = <<"A">>
    /\ SkippedSteps = {2}
    /\ report.failedSteps = 1
    /\ report.completedSteps = 0

\* C27, the exception: the step producing A failed, a second step with task
\* A completed, and the step depending on A was attempted.
C27_OtherProducerReached ==
    /\ wf.pc = "done"
    /\ wf.name = "non-critical"
    /\ Len(wf.steps) = 3
    /\ Failed(1)
    /\ Completed(2)
    /\ wf.steps[1].task = wf.steps[2].task
    /\ wf.steps[1].task \in Range(wf.steps[3].dependencies)
    /\ 3 \in AttemptedSteps


\* The entries of the report's steps log with status completed.
CompletedEntries == {n \in DOMAIN report.steps : report.steps[n].status = "completed"}

\* The completed steps have pairwise distinct tasks.
DistinctCompletedTasks ==
    \A m, n \in CompletedEntries :
        report.steps[m].step.task = report.steps[n].step.task => m = n

\* C28: in every report orchestrateWorkflow returns, the results map and the
\* steps log agree: the keys of results are exactly the tasks of the
\* completed entries, each key holds the result of the last completed entry
\* with that task, and the number of keys is at most completedSteps, with
\* equality exactly when the completed steps have pairwise distinct tasks.
C28_ResultsAgreeWithSteps ==
    wf.pc = "done" =>
        /\ DOMAIN report.results
              = {report.steps[n].step.task : n \in CompletedEntries}
        /\ \A n \in CompletedEntries :
              LET task == report.steps[n].step.task IN
              (\A m \in CompletedEntries :
                  report.steps[m].step.task = task => m <= n)
                 => report.results[task] = report.steps[n].result
        /\ Cardinality(DOMAIN report.results) <= report.completedSteps
        /\ (Cardinality(DOMAIN report.results) = report.completedSteps)
              <=> DistinctCompletedTasks

\* C28 witness: two steps with the same task B completed; the report holds
\* one key, with the result of the second, and completedSteps = 2.
C28_Witness ==
    /\ wf.pc = "done"
    /\ report.completedSteps = 2
    /\ DOMAIN report.results = {"B"}
    /\ Len(report.steps) = 2
    /\ report.results["B"] = report.steps[2].result
    /\ report.results["B"] # report.steps[1].result


\* The first repository save of the call, that of the running record, was
\* rejected.
FirstSaveRejected(c) ==
    calls[c].saves # <<>> /\ calls[c].saves[1] = "error"

\* C29: if persisting the initial running record fails, the executor is never
\* invoked for that executeTask call and the call reports a failure, never a
\* success, to its caller: executeTask raises, so the service answers
\* success = false, the batch holds a failure result at the request's index
\* and the workflow records the step as failed.
C29_FailedFirstSaveNeverRuns ==
    \A c \in CallIds : FirstSaveRejected(c) =>
        /\ calls[c].invoked = 0
        /\ calls[c].outcome = Null
        /\ calls[c].pc \in {"updating", "raised"}
        /\ calls[c].inCatch
        /\ calls[c].value = NoOutput
        /\ ~calls[c].result.success
        /\ calls[c].pc = "raised" => calls[c].error = SaveErrorMessage
        /\ \A id \in RowsOf(c) : \A k \in DOMAIN writes[id] :
              writes[id][k].status = "failed"
        /\ (c = 1 /\ single.pc = "done") =>
              ~single.success /\ single.error = SaveErrorMessage
        /\ (batch.pc = "done" /\ c \in DOMAIN batch.requests) =>
              /\ ~batch.results[c].success
              /\ batch.results[c].error = SaveErrorMessage
        /\ (wf.pc # "idle" /\ c \in DOMAIN wf.steps) =>
              /\ ~Completed(c)
              /\ calls[c].pc = "raised" /\ wf.i # c => Failed(c)
              /\ wf.steps[c].task \in DOMAIN wf.stepResults =>
                    \E i \in DOMAIN wf.steps : i # c /\ Completed(i)

\* C29 witness: the save of the running record was rejected, the save of the
\* catch block was accepted, the executor was never invoked and the service
\* answered success = false; the only row written is failed.
C29_Witness ==
    /\ single.pc = "done"
    /\ calls[1].saves = <<"error", "ok">>
    /\ calls[1].invoked = 0
    /\ calls[1].pc = "raised"
    /\ ~single.success
    /\ RowsOf(1) # {}
    /\ \A id \in RowsOf(1) : store[id].status = "failed"

\* C29, both saves rejected: processTask itself rejects and executeTask
\* rethrows; nothing was written.
C29_BothSavesRejectedReached ==
    /\ single.pc = "done"
    /\ calls[1].saves = <<"error", "error">>
    /\ calls[1].invoked = 0
    /\ ~single.success
    /\ RowsOf(1) = {}


\* The terminal event of the client's request has been handed to the store's
\* listeners.
TerminalDelivered ==
    \E n \in 1 .. client.received :
        emitted[n].event \in {"task_completed", "task_failed"}

ClientTaskStatuses ==
    {client.activeTasks[k].status : k \in DOMAIN client.activeTasks}

\* C30: in the frontend agent store every task executeTask added to
\* activeTasks eventually reaches completed or failed once the backend has
\* published the terminal event for its request, and a task does not stay
\* running after its terminal event was delivered.
C30_ClientTaskReachesTerminal ==
    /\ [](TerminalDelivered => ClientTaskStatuses \subseteq Terminal)
    /\ (client.activeTasks # <<>> /\ Len(TerminalEvents) > 0)
          ~> (ClientTaskStatuses \subseteq Terminal)

\* C30, what the store does: a task, once added, is running in every state,
\* and every terminal event of the gateway lacks the taskId the listeners
\* look for.
C30_ClientTaskStaysRunning ==
    /\ ClientTaskStatuses \subseteq {"running"}
    /\ \A n \in DOMAIN emitted :
          emitted[n].event \in {"task_completed", "task_failed"} =>
              emitted[n].taskId = Null

\* C30, the divergence: the task_started event carried the task's id, the
\* terminal event was delivered to the connected client, and the task is
\* still running.
C30_DeliveredStillRunning ==
    /\ Len(client.activeTasks) = 1
    /\ client.received = 2
    /\ emitted[1].taskId = client.activeTasks[1].id
    /\ emitted[2].event = "task_completed"
    /\ TerminalDelivered
    /\ client.activeTasks[1].status = "running"

====
